---------------------------- MODULE Spec2Model ----------------------------
(***************************************************************************)
(* Formula model, capture-avoiding substitution and recursive-descent      *)
(* parser of the natural-deduction proof assistant (formula.py).           *)
(*                                                                         *)
(* A character is a string; the non-ASCII characters of the source are     *)
(* written by their code point ("U2200" is the character U+2200).  A text  *)
(* or an identifier is a sequence of characters.  A term or a formula is a *)
(* record whose kind is the class name and whose fields are the fields of  *)
(* the class.                                                              *)
(***************************************************************************)
EXTENDS Integers, Sequences, FiniteSets, TLC

VARIABLES
    pc,         \* which call the caller has made last
    input,      \* the text the caller passes to parse
    text,       \* FormulaParser.text
    pos,        \* FormulaParser.pos
    constants,  \* FormulaParser.constants
    formula,    \* the formula the caller holds (receiver of the methods)
    var,        \* the var argument of substitute / is_free_for
    term,       \* the term argument of substitute / is_free_for; the other value
                \* of a comparison; the used_vars of _fresh_variable
    result,     \* value returned by the last call
    error       \* exception class raised by the last call, "none" if it returned

vars == <<pc, input, text, pos, constants, formula, var, term, result, error>>

None == [kind |-> "None"]

(***************************************************************************)
(* Characters                                                              *)
(***************************************************************************)
BOT == "U22A5"
NOT == "U00AC"
AND == "U2227"
OR == "U2228"
IMP == "U2192"
ALL == "U2200"
EX == "U2203"

LowerChars == {"a", "b", "c", "d", "e", "f", "g", "h", "i", "j", "k", "l", "m",
               "n", "o", "p", "q", "r", "s", "t", "u", "v", "w", "x", "y", "z"}
UpperChars == {"A", "B", "C", "D", "E", "F", "G", "H", "I", "J", "K", "L", "M",
               "N", "O", "P", "Q", "R", "S", "T", "U", "V", "W", "X", "Y", "Z"}
Digits == <<"0", "1", "2", "3", "4", "5", "6", "7", "8", "9">>
DigitChars == {Digits[i] : i \in DOMAIN Digits}
SpaceChars == {" "}

isalpha(c) == c \in LowerChars \cup UpperChars
isalnum(c) == isalpha(c) \/ c \in DigitChars
isspace(c) == c \in SpaceChars
islower(c) == c \in LowerChars
isupper(c) == c \in UpperChars

(***************************************************************************)
(* Terms                                                                   *)
(***************************************************************************)
Variable(name) == [kind |-> "Variable", name |-> name]
Constant(name) == [kind |-> "Constant", name |-> name]
FunctionApplication(function, args) ==
    [kind |-> "FunctionApplication", function |-> function, args |-> args]

RECURSIVE UnionOver(_, _, _)
\* variables.update(...) over the elements i..Len(sets) of a sequence of sets
UnionOver(sets, i, acc) ==
    IF i > Len(sets) THEN acc ELSE UnionOver(sets, i + 1, acc \cup sets[i])

RECURSIVE get_variables(_)
get_variables(t) ==
    CASE t.kind = "Variable" -> {t.name}
      [] t.kind = "Constant" -> {}
      [] t.kind = "FunctionApplication" ->
            UnionOver([i \in DOMAIN t.args |-> get_variables(t.args[i])], 1, {})

\* a substitute that does not descend into the arguments of a function application
term_substitute_shallow(t, v, by) ==
    IF t.kind = "Variable" /\ t.name = v THEN by ELSE t

RECURSIVE term_substitute(_, _, _)
term_substitute(t, v, by) ==
    CASE t.kind = "Variable" -> IF t.name = v THEN by ELSE t
      [] t.kind = "Constant" -> t
      [] t.kind = "FunctionApplication" ->
            FunctionApplication(t.function,
                [i \in DOMAIN t.args |-> term_substitute(t.args[i], v, by)])

(***************************************************************************)
(* Formulas                                                                *)
(***************************************************************************)
AtomicFormula(predicate, args) ==
    [kind |-> "AtomicFormula", predicate |-> predicate, args |-> args]
Bottom == [kind |-> "Bottom"]
Negation(f) == [kind |-> "Negation", formula |-> f]
Conjunction(left, right) == [kind |-> "Conjunction", left |-> left, right |-> right]
Disjunction(left, right) == [kind |-> "Disjunction", left |-> left, right |-> right]
Implication(antecedent, consequent) ==
    [kind |-> "Implication", antecedent |-> antecedent, consequent |-> consequent]
Universal(variable, f) == [kind |-> "Universal", variable |-> variable, formula |-> f]
Existential(variable, f) == [kind |-> "Existential", variable |-> variable, formula |-> f]

IsQuantifier(f) == f.kind \in {"Universal", "Existential"}
IsBinary(f) == f.kind \in {"Conjunction", "Disjunction", "Implication"}
\* the two operands of a binary connective, whatever the fields are called
Left(f) == IF f.kind = "Implication" THEN f.antecedent ELSE f.left
Right(f) == IF f.kind = "Implication" THEN f.consequent ELSE f.right
\* the binary connective of kind k
Binary(k, l, r) ==
    CASE k = "Conjunction" -> Conjunction(l, r)
      [] k = "Disjunction" -> Disjunction(l, r)
      [] k = "Implication" -> Implication(l, r)
\* the quantifier of kind k
Quantifier(k, v, f) == IF k = "Universal" THEN Universal(v, f) ELSE Existential(v, f)

\* a quantifier that reports its bound name with the body's free variables
quantifier_free_variables_keep(body_free, variable) == body_free

quantifier_free_variables(body_free, variable) == body_free \ {variable}

RECURSIVE get_free_variables(_)
get_free_variables(f) ==
    CASE f.kind = "AtomicFormula" ->
            UnionOver([i \in DOMAIN f.args |-> get_variables(f.args[i])], 1, {})
      [] f.kind = "Bottom" -> {}
      [] f.kind = "Negation" -> get_free_variables(f.formula)
      [] IsBinary(f) -> get_free_variables(Left(f)) \cup get_free_variables(Right(f))
      [] IsQuantifier(f) ->
            quantifier_free_variables(get_free_variables(f.formula), f.variable)

RECURSIVE IntToStr(_)
\* the decimal digits of a counter, as the f-string formats it
IntToStr(n) ==
    IF n < 10 THEN <<Digits[n + 1]>>
    ELSE IntToStr(n \div 10) \o <<Digits[(n % 10) + 1]>>

RECURSIVE fresh_from_next(_, _, _)
\* a loop that starts one counter late
fresh_from_next(base, used_vars, counter) ==
    IF (base \o IntToStr(counter + 1)) \in used_vars
    THEN fresh_from_next(base, used_vars, counter + 1)
    ELSE base \o IntToStr(counter + 1)

RECURSIVE fresh_from(_, _, _)
\* the while loop of _fresh_variable, entered with the given counter
fresh_from(base, used_vars, counter) ==
    IF (base \o IntToStr(counter)) \in used_vars
    THEN fresh_from(base, used_vars, counter + 1)
    ELSE base \o IntToStr(counter)

\* a generator that returns the first candidate without looking at used_vars
fresh_variable_first(self, used_vars) == self.variable \o IntToStr(0)

fresh_variable(self, used_vars) == fresh_from(self.variable, used_vars, 0)

RECURSIVE substitute(_, _, _)

\* a substitute that tests for capture before it tests for the bound name
quantifier_substitute_capture_first(self, v, by) ==
    IF self.variable \in get_variables(by)
    THEN LET new_var == fresh_variable(self,
                 get_variables(by) \cup get_free_variables(self.formula))
             renamed_formula == substitute(self.formula, self.variable, Variable(new_var))
         IN  Quantifier(self.kind, new_var, substitute(renamed_formula, v, by))
    ELSE IF v = self.variable
    THEN self
    ELSE Quantifier(self.kind, self.variable, substitute(self.formula, v, by))

quantifier_substitute(self, v, by) ==
    IF v = self.variable
    THEN self
    ELSE IF self.variable \in get_variables(by)
    THEN LET new_var == fresh_variable(self,
                 get_variables(by) \cup get_free_variables(self.formula))
             renamed_formula == substitute(self.formula, self.variable, Variable(new_var))
         IN  Quantifier(self.kind, new_var, substitute(renamed_formula, v, by))
    ELSE Quantifier(self.kind, self.variable, substitute(self.formula, v, by))

Universal_substitute(self, v, by) == quantifier_substitute(self, v, by)
Existential_substitute(self, v, by) == quantifier_substitute(self, v, by)

substitute(f, v, by) ==
    CASE f.kind = "AtomicFormula" ->
            AtomicFormula(f.predicate,
                [i \in DOMAIN f.args |-> term_substitute(f.args[i], v, by)])
      [] f.kind = "Bottom" -> f
      [] f.kind = "Negation" -> Negation(substitute(f.formula, v, by))
      [] IsBinary(f) ->
            Binary(f.kind, substitute(Left(f), v, by), substitute(Right(f), v, by))
      [] f.kind = "Universal" -> Universal_substitute(f, v, by)
      [] f.kind = "Existential" -> Existential_substitute(f, v, by)

RECURSIVE is_free_for(_, _, _)

\* an is_free_for that refuses every term mentioning the bound name
quantifier_is_free_for_strict(self, by, v) ==
    IF v = self.variable
    THEN TRUE
    ELSE IF self.variable \in get_variables(by)
    THEN FALSE
    ELSE is_free_for(self.formula, by, v)

quantifier_is_free_for(self, by, v) ==
    IF v = self.variable
    THEN TRUE
    ELSE IF self.variable \in get_variables(by)
    THEN v \notin get_free_variables(self.formula)
    ELSE is_free_for(self.formula, by, v)

is_free_for(f, by, v) ==
    CASE f.kind = "AtomicFormula" -> TRUE
      [] f.kind = "Bottom" -> TRUE
      [] f.kind = "Negation" -> is_free_for(f.formula, by, v)
      [] IsBinary(f) -> is_free_for(Left(f), by, v) /\ is_free_for(Right(f), by, v)
      [] IsQuantifier(f) -> quantifier_is_free_for(f, by, v)

(***************************************************************************)
(* The printer (__str__)                                                   *)
(***************************************************************************)
RECURSIVE JoinFrom(_, _, _)
\* sep.join of the elements i..Len(strs) of a sequence of strings
JoinFrom(strs, sep, i) ==
    IF i > Len(strs) THEN <<>>
    ELSE IF i = Len(strs) THEN strs[i]
    ELSE strs[i] \o sep \o JoinFrom(strs, sep, i + 1)

RECURSIVE term_str(_)
term_str(t) ==
    CASE t.kind = "Variable" -> t.name
      [] t.kind = "Constant" -> t.name
      [] t.kind = "FunctionApplication" ->
            t.function \o <<"(">>
                \o JoinFrom([i \in DOMAIN t.args |-> term_str(t.args[i])], <<",", " ">>, 1)
                \o <<")">>

RECURSIVE str(_)
str(f) ==
    CASE f.kind = "AtomicFormula" ->
            IF f.args = <<>> THEN f.predicate
            ELSE f.predicate \o <<"(">>
                    \o JoinFrom([i \in DOMAIN f.args |-> term_str(f.args[i])], <<",", " ">>, 1)
                    \o <<")">>
      [] f.kind = "Bottom" -> <<BOT>>
      [] f.kind = "Negation" ->
            IF IsBinary(f.formula) THEN <<NOT, "(">> \o str(f.formula) \o <<")">>
            ELSE <<NOT>> \o str(f.formula)
      [] f.kind = "Conjunction" ->
            <<"(">> \o str(f.left) \o <<" ", AND, " ">> \o str(f.right) \o <<")">>
      [] f.kind = "Disjunction" ->
            <<"(">> \o str(f.left) \o <<" ", OR, " ">> \o str(f.right) \o <<")">>
      [] f.kind = "Implication" ->
            <<"(">> \o str(f.antecedent) \o <<" ", IMP, " ">> \o str(f.consequent) \o <<")">>
      [] f.kind = "Universal" -> <<ALL>> \o f.variable \o <<".">> \o str(f.formula)
      [] f.kind = "Existential" -> <<EX>> \o f.variable \o <<".">> \o str(f.formula)

(***************************************************************************)
(* The parser.  A parser state st is the pair of FormulaParser.pos and     *)
(* FormulaParser.constants; the text tx is fixed during one parse.  Every  *)
(* method returns the state it leaves and either its value or the class of *)
(* the exception it raised.                                                *)
(***************************************************************************)
NoChar == "None"

Return(st, val) == [ok |-> TRUE, err |-> "none", st |-> st, val |-> val]
Raise(err, st) == [ok |-> FALSE, err |-> err, st |-> st, val |-> None]

\* the state with the cursor moved n characters on
Advance(st, n) == [st EXCEPT !.pos = st.pos + n]

\* tx[a:b] of Python, which stops at the end of tx
Slice(tx, a, b) ==
    LET e == IF b < Len(tx) THEN b ELSE Len(tx)
    IN  IF a >= e THEN <<>> ELSE SubSeq(tx, a + 1, e)

RECURSIVE lstrip(_)
lstrip(tx) == IF tx # <<>> /\ isspace(Head(tx)) THEN lstrip(Tail(tx)) ELSE tx
RECURSIVE rstrip(_)
rstrip(tx) ==
    IF tx # <<>> /\ isspace(tx[Len(tx)]) THEN rstrip(SubSeq(tx, 1, Len(tx) - 1)) ELSE tx
strip(tx) == rstrip(lstrip(tx))

_current(tx, st) == IF st.pos < Len(tx) THEN tx[st.pos + 1] ELSE NoChar

\* a _consume that does not look for the end of the text
_consume_unchecked(tx, st, expected) ==
    IF st.pos < Len(tx) /\ expected # NoChar /\ tx[st.pos + 1] # expected
    THEN Raise("ValueError", st)
    ELSE Return(Advance(st, 1), _current(tx, st))

\* expected is NoChar when the caller passes no expected character
_consume(tx, st, expected) ==
    IF st.pos >= Len(tx)
    THEN IF expected # NoChar THEN Raise("ValueError", st) ELSE Return(st, NoChar)
    ELSE LET char == tx[st.pos + 1]
         IN  IF expected # NoChar /\ char # expected
             THEN Raise("ValueError", st)
             ELSE Return(Advance(st, 1), char)

RECURSIVE _skip_whitespace(_, _)
_skip_whitespace(tx, st) ==
    IF st.pos < Len(tx) /\ isspace(tx[st.pos + 1])
    THEN _skip_whitespace(tx, Advance(st, 1))
    ELSE st

RECURSIVE identifier_end(_, _)
\* the while loop of _parse_identifier
identifier_end(tx, st) ==
    IF st.pos < Len(tx) /\ (isalnum(tx[st.pos + 1]) \/ tx[st.pos + 1] \in {"_", "'"})
    THEN identifier_end(tx, Advance(st, 1))
    ELSE st

_parse_identifier(tx, st0) ==
    LET st == _skip_whitespace(tx, st0)
        start == st.pos
    IN  IF Slice(tx, st.pos, st.pos + 1) \in {<<BOT>>, <<"_">>}
        THEN Return(Advance(st, 1), Slice(tx, start, st.pos + 1))
        ELSE IF st.pos >= Len(tx)
        THEN Raise("IndexError", st)
        ELSE IF ~isalpha(tx[st.pos + 1])
        THEN Raise("ValueError", st)
        ELSE LET e == identifier_end(tx, st)
             IN  Return(e, Slice(tx, start, e.pos))

RECURSIVE _parse_term(_, _)
RECURSIVE term_arguments(_, _, _)
\* one turn of the while True loop after its call of _parse_term returned t:
\* the append, and the ',' or ')' that has to follow
next_argument(tx, args, t) ==
    IF ~t.ok THEN t
    ELSE LET st1 == _skip_whitespace(tx, t.st)
         IN  IF _current(tx, st1) = ","
             THEN LET st2 == _skip_whitespace(tx, _consume(tx, st1, ",").st)
                  IN  IF _current(tx, st2) = ")"
                      THEN Raise("ValueError", st2)
                      ELSE term_arguments(tx, st2, Append(args, t.val))
             ELSE IF _current(tx, st1) = ")"
             THEN Return(st1, Append(args, t.val))
             ELSE Raise("ValueError", st1)

\* the while True loop of _parse_term (and of _parse_atomic), with the
\* arguments read so far; it returns at the break, before the ')' is consumed
term_arguments(tx, st0, args) ==
    LET st == _skip_whitespace(tx, st0)
    IN  IF _current(tx, st) = ")"
        THEN Return(st, args)
        ELSE next_argument(tx, args, _parse_term(tx, st))

\* the end of an argument list args read after the name: the ')' is consumed
\* and the application (of the class kind) is built
close_arguments(kind, tx, name, args) ==
    IF ~args.ok THEN args
    ELSE Return(_consume(tx, args.st, ")").st,
                IF kind = "AtomicFormula"
                THEN AtomicFormula(name, args.val)
                ELSE FunctionApplication(name, args.val))

_parse_term(tx, st0) ==
    LET name == _parse_identifier(tx, _skip_whitespace(tx, st0))
    IN  IF ~name.ok THEN name
        ELSE LET st == _skip_whitespace(tx, name.st)
             IN  IF _current(tx, st) = "("
                 THEN close_arguments("FunctionApplication", tx, name.val,
                          term_arguments(tx, _consume(tx, st, "(").st, <<>>))
                 ELSE IF islower(name.val[1])
                 THEN Return(st, Variable(name.val))
                 ELSE Return([st EXCEPT !.constants = @ \cup {name.val}],
                             Constant(name.val))

NegationSigns == {"~", NOT, "!"}
FORALL == <<"f", "o", "r", "a", "l", "l">>
EXISTS == <<"e", "x", "i", "s", "t", "s">>

RECURSIVE _parse_formula(_, _)
RECURSIVE _parse_primary(_, _)
RECURSIVE _parse_negation(_, _)

_parse_atomic(tx, st0) ==
    LET st == _skip_whitespace(tx, st0)
    IN  IF _current(tx, st) \in {BOT, "_"}
        THEN Return(_consume(tx, st, NoChar).st, Bottom)
        ELSE IF _current(tx, st) \in NegationSigns
        THEN _parse_negation(tx, st)
        ELSE LET name == _parse_identifier(tx, st)
             IN  IF ~name.ok THEN name
                 ELSE LET st1 == _skip_whitespace(tx, name.st)
                      IN  IF _current(tx, st1) = "("
                          THEN close_arguments("AtomicFormula", tx, name.val,
                                   term_arguments(tx, _consume(tx, st1, "(").st, <<>>))
                          ELSE Return(st1, AtomicFormula(name.val, <<>>))

\* return Negation(formula), where f is what the call of _parse_primary gave
negated(f) == IF ~f.ok THEN f ELSE Return(f.st, Negation(f.val))

_parse_negation(tx, st0) ==
    LET st == _skip_whitespace(tx, st0)
    IN  IF _current(tx, st) \in NegationSigns
        THEN negated(_parse_primary(tx, _skip_whitespace(tx, _consume(tx, st, NoChar).st)))
        ELSE _parse_primary(tx, st)

\* return Universal(var, formula) or Existential(var, formula), where f is
\* what the call of _parse_formula gave
quantified(kind, variable, f) ==
    IF ~f.ok THEN f ELSE Return(f.st, Quantifier(kind, variable, f.val))

\* a quantifier whose body is a negation or primary, not a full formula
parse_quantifier_tight(kind, tx, st0) ==
    LET v == _parse_identifier(tx, _skip_whitespace(tx, st0))
    IN  IF ~v.ok THEN v
        ELSE LET st1 == IF isupper(v.val[1]) THEN _skip_whitespace(tx, v.st) ELSE v.st
             IN  IF isupper(v.val[1]) /\ _current(tx, st1) = "("
                 THEN Raise("ValueError", st1)
                 ELSE LET st2 == _skip_whitespace(tx, st1)
                      IN  quantified(kind, v.val,
                              _parse_negation(tx, IF _current(tx, st2) = "."
                                                  THEN _consume(tx, st2, ".").st
                                                  ELSE st2))

\* a quantifier that takes every bound name in upper case for a predicate
parse_quantifier_no_uppercase(kind, tx, st0) ==
    LET v == _parse_identifier(tx, _skip_whitespace(tx, st0))
    IN  IF ~v.ok THEN v
        ELSE IF isupper(v.val[1])
        THEN Raise("ValueError", v.st)
        ELSE LET st2 == _skip_whitespace(tx, v.st)
             IN  quantified(kind, v.val,
                     _parse_formula(tx, IF _current(tx, st2) = "."
                                        THEN _consume(tx, st2, ".").st
                                        ELSE st2))

\* _parse_universal and _parse_existential, which differ in the class they build
parse_quantifier(kind, tx, st0) ==
    LET v == _parse_identifier(tx, _skip_whitespace(tx, st0))
    IN  IF ~v.ok THEN v
        ELSE LET st1 == IF isupper(v.val[1]) THEN _skip_whitespace(tx, v.st) ELSE v.st
             IN  IF isupper(v.val[1]) /\ _current(tx, st1) = "("
                 THEN Raise("ValueError", st1)
                 ELSE LET st2 == _skip_whitespace(tx, st1)
                      IN  quantified(kind, v.val,
                              _parse_formula(tx, IF _current(tx, st2) = "."
                                                 THEN _consume(tx, st2, ".").st
                                                 ELSE st2))

_parse_universal(tx, st) == parse_quantifier("Universal", tx, st)
_parse_existential(tx, st) == parse_quantifier("Existential", tx, st)

\* the ')' that has to follow the formula f read after a '('
parenthesized(tx, f) ==
    IF ~f.ok THEN f
    ELSE LET close == _consume(tx, _skip_whitespace(tx, f.st), ")")
         IN  IF ~close.ok THEN close ELSE Return(close.st, f.val)

_parse_primary(tx, st0) ==
    LET st == _skip_whitespace(tx, st0)
    IN  IF _current(tx, st) = "("
        THEN parenthesized(tx, _parse_formula(tx, _consume(tx, st, "(").st))
        ELSE IF Slice(tx, st.pos, st.pos + 6) = FORALL
        THEN _parse_universal(tx, Advance(st, 6))
        ELSE IF Slice(tx, st.pos, st.pos + 6) = EXISTS
        THEN _parse_existential(tx, Advance(st, 6))
        ELSE IF _current(tx, st) = ALL
        THEN _parse_universal(tx, _consume(tx, st, NoChar).st)
        ELSE IF _current(tx, st) = EX
        THEN _parse_existential(tx, _consume(tx, st, NoChar).st)
        ELSE _parse_atomic(tx, st)

\* left = Conjunction(left, right) and its like for the other connectives,
\* where right is what the call that read the right operand gave
joined(kind, left, right) ==
    IF ~right.ok THEN right ELSE Return(right.st, Binary(kind, left.val, right.val))

RECURSIVE conjunction_loop(_, _)
\* the while True loop of _parse_conjunction; left is what the call that read
\* the operand built so far gave
conjunction_loop(tx, left) ==
    IF ~left.ok THEN left
    ELSE LET st == _skip_whitespace(tx, left.st)
         IN  IF _current(tx, st) \in {"&", AND}
             THEN conjunction_loop(tx,
                      joined("Conjunction", left,
                             _parse_negation(tx, _consume(tx, st, NoChar).st)))
             ELSE Return(st, left.val)

_parse_conjunction(tx, st) == conjunction_loop(tx, _parse_negation(tx, st))

RECURSIVE disjunction_loop_flat(_, _)
\* a disjunction whose right operand is read as a negation, not as a conjunction
disjunction_loop_flat(tx, left) ==
    IF ~left.ok THEN left
    ELSE LET st == _skip_whitespace(tx, left.st)
         IN  IF _current(tx, st) \in {"|", OR}
             THEN disjunction_loop_flat(tx,
                      joined("Disjunction", left,
                             _parse_negation(tx, _consume(tx, st, NoChar).st)))
             ELSE Return(st, left.val)

RECURSIVE disjunction_loop(_, _)
\* the while True loop of _parse_disjunction; left is what the call that read
\* the operand built so far gave
disjunction_loop(tx, left) ==
    IF ~left.ok THEN left
    ELSE LET st == _skip_whitespace(tx, left.st)
         IN  IF _current(tx, st) \in {"|", OR}
             THEN disjunction_loop(tx,
                      joined("Disjunction", left,
                             _parse_conjunction(tx, _consume(tx, st, NoChar).st)))
             ELSE Return(st, left.val)

_parse_disjunction(tx, st) == disjunction_loop(tx, _parse_conjunction(tx, st))

RECURSIVE _parse_implication(_, _)
\* _parse_implication after its call of _parse_disjunction returned left
implication_right(tx, left) ==
    IF ~left.ok THEN left
    ELSE LET st == _skip_whitespace(tx, left.st)
         IN  IF Slice(tx, st.pos, st.pos + 2) = <<"-", ">">>
             THEN joined("Implication", left, _parse_implication(tx, Advance(st, 2)))
             ELSE IF _current(tx, st) = IMP
             THEN joined("Implication", left,
                         _parse_implication(tx, _consume(tx, st, NoChar).st))
             ELSE Return(st, left.val)

_parse_implication(tx, st) == implication_right(tx, _parse_disjunction(tx, st))

_parse_formula(tx, st) == _parse_implication(tx, st)

\* the check of parse that the formula f used up the text tx
whole_text(tx, f) ==
    IF ~f.ok THEN f
    ELSE IF f.st.pos < Len(tx) THEN Raise("ValueError", f.st)
    ELSE f

\* a parse that returns the formula it read and ignores what follows it
parser_parse_prefix(input_text, st0) ==
    _parse_formula(strip(input_text), [st0 EXCEPT !.pos = 0])

\* a parse that starts where the parser's last parse stopped
parser_parse_resume(input_text, st0) ==
    whole_text(strip(input_text), _parse_formula(strip(input_text), st0))

\* FormulaParser.parse on a parser whose constants are those of st0
parser_parse(input_text, st0) ==
    whole_text(strip(input_text),
               _parse_formula(strip(input_text), [st0 EXCEPT !.pos = 0]))

\* FormulaParser(): the fields after __init__
NewParser == [pos |-> 0, constants |-> {}]

\* the module-level helper parse(text)
parse(input_text) == parser_parse(input_text, NewParser)

(***************************************************************************)
(* Callers of the formula methods: a caller holds a formula, a variable    *)
(* name and a term, and makes one call.                                    *)
(***************************************************************************)
NumVars == 3
NamePool == << <<"x">>, <<"y">>, <<"y", "0">>, <<"y", "1">>, <<"x", "0">> >>
VarNames == {NamePool[i] : i \in 1..NumVars}

Variables == {Variable(n) : n \in VarNames}
Terms == Variables \cup {Constant(<<"c">>)}
             \cup {FunctionApplication(<<"f">>, <<v>>) : v \in Variables}

Atoms == {AtomicFormula(<<"P">>, <<t>>) : t \in Terms}
             \cup {AtomicFormula(<<"R">>, <<u, v>>) : u, v \in Variables}
             \cup {AtomicFormula(<<"p">>, <<>>), Bottom}
Operands == {AtomicFormula(<<"Q">>, <<Variable(NamePool[1])>>),
             AtomicFormula(<<"R">>, <<Variable(NamePool[1]), Variable(NamePool[2])>>)}
BinaryKinds == {"Conjunction", "Disjunction", "Implication"}
QuantifierKinds == {"Universal", "Existential"}

\* one more connective or quantifier on top of the formulas of S
Step(S) == S \cup {Negation(g) : g \in S}
             \cup {Quantifier(k, n, g) : k \in QuantifierKinds, n \in VarNames, g \in S}
             \cup {Binary(k, g, a) : k \in BinaryKinds, g \in S, a \in Operands}
             \cup {Binary(k, a, g) : k \in BinaryKinds, g \in S, a \in Operands}
Formulas == Step(Step(Atoms))

Init ==
    /\ pc = "start"
    /\ input = <<>>
    /\ text = <<>>
    /\ pos = 0
    /\ constants = {}
    /\ formula \in Formulas
    /\ var \in VarNames
    /\ term \in Terms
    /\ result = None
    /\ error = "none"

Substitute ==
    /\ pc = "start"
    /\ pc' = "substitute"
    /\ result' = substitute(formula, var, term)
    /\ UNCHANGED <<input, text, pos, constants, formula, var, term, error>>

GetFreeVariables ==
    /\ pc = "start"
    /\ pc' = "get_free_variables"
    /\ result' = get_free_variables(formula)
    /\ UNCHANGED <<input, text, pos, constants, formula, var, term, error>>

IsFreeFor ==
    /\ pc = "start"
    /\ pc' = "is_free_for"
    /\ result' = is_free_for(formula, term, var)
    /\ UNCHANGED <<input, text, pos, constants, formula, var, term, error>>

Next == Substitute \/ GetFreeVariables \/ IsFreeFor

Spec == Init /\ [][Next]_vars

(***************************************************************************)
(* Reference notions the properties are stated with: occurrences of names  *)
(* in a formula, read top-down with the set of enclosing binders.          *)
(***************************************************************************)
x_ == NamePool[1]
y_ == NamePool[2]
y0_ == NamePool[3]
c_ == Constant(<<"c">>)
f_(t) == FunctionApplication(<<"f">>, <<t>>)
P_(t) == AtomicFormula(<<"P">>, <<t>>)
Q_(t) == AtomicFormula(<<"Q">>, <<t>>)
R_(t, u) == AtomicFormula(<<"R">>, <<t, u>>)

RECURSIVE TermNames(_)
\* the names of the Variable nodes of a term
TermNames(t) ==
    IF t.kind = "Variable" THEN {t.name}
    ELSE IF t.kind = "Constant" THEN {}
    ELSE UNION {TermNames(t.args[i]) : i \in DOMAIN t.args}

RECURSIVE FreeNames(_, _)
\* names with an occurrence in f that no enclosing quantifier of f (nor one of
\* `binders`) binds
FreeNames(f, binders) ==
    IF f.kind = "AtomicFormula"
    THEN UNION {TermNames(f.args[i]) : i \in DOMAIN f.args} \ binders
    ELSE IF f.kind = "Bottom" THEN {}
    ELSE IF f.kind = "Negation" THEN FreeNames(f.formula, binders)
    ELSE IF IsBinary(f) THEN FreeNames(Left(f), binders) \cup FreeNames(Right(f), binders)
    ELSE FreeNames(f.formula, binders \cup {f.variable})

RECURSIVE BoundNames(_)
\* the names bound by some quantifier occurring in f
BoundNames(f) ==
    IF f.kind \in {"AtomicFormula", "Bottom"} THEN {}
    ELSE IF f.kind = "Negation" THEN BoundNames(f.formula)
    ELSE IF IsBinary(f) THEN BoundNames(Left(f)) \cup BoundNames(Right(f))
    ELSE {f.variable} \cup BoundNames(f.formula)

RECURSIVE ReplaceInTerm(_, _, _)
ReplaceInTerm(t, v, by) ==
    IF t.kind = "Variable" THEN (IF t.name = v THEN by ELSE t)
    ELSE IF t.kind = "Constant" THEN t
    ELSE [t EXCEPT !.args = [i \in DOMAIN t.args |-> ReplaceInTerm(t.args[i], v, by)]]

RECURSIVE ReplaceFree(_, _, _)
\* f with every free occurrence of v replaced by the term, nothing else changed
ReplaceFree(f, v, by) ==
    IF f.kind = "AtomicFormula"
    THEN [f EXCEPT !.args = [i \in DOMAIN f.args |-> ReplaceInTerm(f.args[i], v, by)]]
    ELSE IF f.kind = "Bottom" THEN f
    ELSE IF f.kind = "Negation" THEN [f EXCEPT !.formula = ReplaceFree(f.formula, v, by)]
    ELSE IF f.kind = "Implication"
    THEN [f EXCEPT !.antecedent = ReplaceFree(f.antecedent, v, by),
                   !.consequent = ReplaceFree(f.consequent, v, by)]
    ELSE IF IsBinary(f)
    THEN [f EXCEPT !.left = ReplaceFree(f.left, v, by), !.right = ReplaceFree(f.right, v, by)]
    ELSE IF f.variable = v THEN f
    ELSE [f EXCEPT !.formula = ReplaceFree(f.formula, v, by)]

RECURSIVE CapturedOccurrence(_, _, _, _)
\* some free occurrence of v in f lies under a quantifier of f binding a name of tv
\* (binders: the quantifiers passed so far)
CapturedOccurrence(f, v, tv, binders) ==
    IF f.kind = "AtomicFormula"
    THEN /\ v \in UNION {TermNames(f.args[i]) : i \in DOMAIN f.args}
         /\ v \notin binders
         /\ binders \cap tv # {}
    ELSE IF f.kind = "Bottom" THEN FALSE
    ELSE IF f.kind = "Negation" THEN CapturedOccurrence(f.formula, v, tv, binders)
    ELSE IF IsBinary(f)
    THEN CapturedOccurrence(Left(f), v, tv, binders)
             \/ CapturedOccurrence(Right(f), v, tv, binders)
    ELSE CapturedOccurrence(f.formula, v, tv, binders \cup {f.variable})

(***************************************************************************)
(* Properties of the formula methods                                       *)
(***************************************************************************)
Renames == /\ pc = "substitute"
           /\ IsQuantifier(formula)
           /\ var # formula.variable
           /\ formula.variable \in get_variables(term)

\* C1: substituting a term that contains the bound name y for another name in
\* a quantified formula gives a quantifier of the same kind whose bound name is
\* not y, not a variable of the term and not a free variable of the body.
C1_CaptureAvoidance ==
    Renames =>
        /\ result.kind = formula.kind
        /\ result.variable # formula.variable
        /\ result.variable \notin get_variables(term)
        /\ result.variable \notin get_free_variables(formula.formula)
        /\ result.variable \notin TermNames(term)
        /\ result.variable \notin FreeNames(formula.formula, {})

\* the renaming case in which the first candidate name was taken
C1_Witness ==
    /\ Renames
    /\ var \in get_free_variables(formula.formula)
    /\ result.variable = formula.variable \o <<"1">>

\* C2: substituting for a name that is not free in f returns f itself,
\* structurally.
C2_Idempotence ==
    (pc = "substitute" /\ var \notin get_free_variables(formula)) => result = formula

\* C4: substituting for the name a quantifier binds returns the quantified
\* formula unchanged, whatever the term.
C4_VacuousSubstitution ==
    (pc = "substitute" /\ IsQuantifier(formula) /\ var = formula.variable)
        => result = formula

\* the bound name occurs in the body and also in the term
C4_Witness ==
    /\ pc = "substitute"
    /\ IsQuantifier(formula)
    /\ var = formula.variable
    /\ var \in get_free_variables(formula.formula)
    /\ var \in get_variables(term)
    /\ result = formula

\* C5: get_free_variables is the set of names having an occurrence that no
\* enclosing quantifier binds; constants are not in it.
C5_FreeVariables ==
    pc = "get_free_variables" => result = FreeNames(formula, {})

\* the name x bound in the antecedent and free in the consequent
C5_Witness ==
    /\ pc = "get_free_variables"
    /\ formula = Implication(Universal(x_, P_(Variable(x_))), Q_(Variable(x_)))
    /\ result = {x_}

\* C6: when no quantifier of f binds a variable of the term, substitute
\* replaces the free occurrences of var and changes nothing else.
C6_ReplacesFreeOccurrences ==
    (pc = "substitute" /\ BoundNames(formula) \cap get_variables(term) = {})
        => result = ReplaceFree(formula, var, term)

\* (forall x. P(x)) & Q(x) with c for x: only the argument of Q changes
C6_Witness ==
    /\ pc = "substitute"
    /\ formula = Conjunction(Universal(x_, P_(Variable(x_))), Q_(Variable(x_)))
    /\ var = x_
    /\ term = c_
    /\ result = Conjunction(Universal(x_, P_(Variable(x_))), Q_(c_))

\* C7: is_free_for is true exactly when no free occurrence of var lies under
\* a quantifier binding a variable of the term; it is true of atoms and Bottom
\* and of a quantifier binding var.
C7_IsFreeForExact ==
    pc = "is_free_for" =>
        /\ result = ~CapturedOccurrence(formula, var, TermNames(term), {})
        /\ formula.kind \in {"AtomicFormula", "Bottom"} => result = TRUE
        /\ (IsQuantifier(formula) /\ formula.variable = var) => result = TRUE

\* a capture found below a quantifier that does not itself bind a name of the term
C7_Witness ==
    /\ pc = "is_free_for"
    /\ IsQuantifier(formula)
    /\ formula.variable \notin get_variables(term)
    /\ formula.variable # var
    /\ result = FALSE

(***************************************************************************)
(* Callers of the parser: a caller passes a text to parse(), may print the *)
(* formula it gets and parse the printed text again.                       *)
(*                                                                         *)
(* The texts are built the way the grammar builds formulas, in the ASCII   *)
(* and the Unicode spelling, and then damaged in the ways a caller can get *)
(* a text wrong.                                                           *)
(***************************************************************************)
AtomTexts == {<<"p">>, <<"P", "(", "x", ")">>, <<"R", "(", "x", ",", " ", "y", ")">>, <<"P", "(", "f", "(", "x", ")", ")">>, <<"Q", "(", "C", ",", "y", ")">>, <<"_">>, <<BOT>>}
OperandTexts == {<<"q">>}
NegationTexts == {<<"~">>, <<NOT>>}
QuantifierTexts == {<<"f", "o", "r", "a", "l", "l", " ", "x", ".", " ">>, <<"e", "x", "i", "s", "t", "s", " ", "y", " ">>, <<ALL, "x", ".">>, <<EX, "y", ".">>}
OperatorTexts == {<<" ", "&", " ">>, <<"|">>, <<" ", "-", ">", " ">>, <<AND>>}

\* one more connective, quantifier or pair of parentheses around the texts of S
StepText(S) ==
    S \cup {n \o g : n \in NegationTexts, g \in S}
      \cup {<<"(">> \o g \o <<")">> : g \in S}
      \cup {k \o g : k \in QuantifierTexts, g \in S}
      \cup {g \o o \o a : g \in S, o \in OperatorTexts, a \in OperandTexts}
      \cup {a \o o \o g : g \in S, o \in OperatorTexts, a \in OperandTexts}

Texts1 == StepText(AtomTexts)
Texts2 == StepText(Texts1)
Texts3 == StepText(Texts2)

\* a or ~a, then an operator, b or ~b, an operator, c or ~c
ChainAtoms == {[text |-> <<"p">>, ast |-> AtomicFormula(<<"p">>, <<>>)],
               [text |-> <<"q">>, ast |-> AtomicFormula(<<"q">>, <<>>)],
               [text |-> <<"r">>, ast |-> AtomicFormula(<<"r">>, <<>>)],
               [text |-> <<"P", "(", "x", ")">>, ast |-> AtomicFormula(<<"P">>, <<Variable(<<"x">>)>>)]}
ChainOperators == {[text |-> <<" ", "&", " ">>, kind |-> "Conjunction"],
                   [text |-> <<"|">>, kind |-> "Disjunction"],
                   [text |-> <<" ", "-", ">", " ">>, kind |-> "Implication"]}
ChainSigns == {[text |-> <<>>, negated |-> FALSE], [text |-> <<"~">>, negated |-> TRUE]}
Chains == [a : ChainAtoms, b : ChainAtoms, c : ChainAtoms,
           sa : ChainSigns, sb : ChainSigns, sc : ChainSigns,
           o1 : ChainOperators, o2 : ChainOperators]
ChainText(ch) ==
    ch.sa.text \o ch.a.text \o ch.o1.text \o ch.sb.text \o ch.b.text
        \o ch.o2.text \o ch.sc.text \o ch.c.text
ChainTexts == {ChainText(ch) : ch \in Chains}

\* the texts a caller gets wrong
EmptyTexts == {<<>>, <<" ">>, <<" ", " ">>}
LeftOverTexts == {w \o e : w \in Texts2, e \in {<<")">>, <<" ", "q">>, <<",">>, <<".">>, <<" ", ")">>}}
MissingRightTexts ==
    {w \o o : w \in Texts2, o \in {<<" ", "&">>, <<"|">>, <<" ", "-", ">", " ">>, <<" ", AND>>, <<OR>>, <<IMP>>}}
MissingLeftTexts ==
    {o \o w : w \in Texts2, o \in {<<"&", " ">>, <<"|">>, <<" ", "-", ">", " ">>, <<AND, " ">>, <<OR>>, <<IMP>>}}
UnterminatedTexts ==
    {<<"(">> \o w : w \in Texts2} \cup {<<"(", "(">> \o w \o <<")">> : w \in Texts2}
        \cup {<<"q", " ", "&", " ", "(">> \o w : w \in Texts2}
NoIdentifierTexts ==
    {k \o e \o w : k \in {<<"f", "o", "r", "a", "l", "l">>, <<"e", "x", "i", "s", "t", "s">>, <<ALL>>, <<EX>>},
                    e \in {<<" ", ".", " ">>, <<".">>, <<" ", "(">>, <<" ", "~">>}, w \in Texts1}
        \cup {<<"f", "o", "r", "a", "l", "l">>, <<"e", "x", "i", "s", "t", "s", " ">>, <<ALL>>, <<EX>>}
ArgumentTexts == {<<"x">>, <<"C">>, <<"f", "(", "x", ")">>, <<"x", ",", " ", "y">>, <<"f", "(", "x", ",", " ", "y", ")", ",", " ", "C">>}
\* the places of a formula where an atom can stand
Contexts == {[pre |-> <<>>, post |-> <<>>],
             [pre |-> <<"q", " ", "&", " ">>, post |-> <<>>],
             [pre |-> <<"~">>, post |-> <<" ", "-", ">", " ", "q">>],
             [pre |-> <<"f", "o", "r", "a", "l", "l", " ", "x", ".", " ", "(">>, post |-> <<")">>],
             [pre |-> <<EX, "y", ".">>, post |-> <<OR, "q">>]}
Heads == {<<"P", "(">>, <<"P", " ", "(">>, <<"P", "(", "f", "(">>, <<"R", "(", "x", ",", " ", "g", "(">>}
\* the closing parentheses the head leaves open
Closing(h) == IF h \in {<<"P", "(">>, <<"P", " ", "(">>} THEN <<")">> ELSE <<")", ")">>
Commas == {<<",">>, <<",", " ">>, <<" ", ",">>}
TrailingCommaTexts ==
    {c.pre \o h \o a \o e \o Closing(h) \o c.post :
        c \in Contexts, h \in Heads, a \in ArgumentTexts, e \in Commas}
EmptyArgumentTexts ==
    {c.pre \o h \o e \o a \o Closing(h) \o c.post :
        c \in Contexts, h \in Heads, a \in ArgumentTexts, e \in Commas}
      \cup {c.pre \o h \o a \o e \o b \o Closing(h) \o c.post :
        c \in Contexts, h \in Heads, a \in ArgumentTexts, b \in ArgumentTexts,
        e \in {<<",", ",">>, <<",", " ", ",">>, <<",", ",", " ">>}}
MalformedTexts ==
    EmptyTexts \cup LeftOverTexts \cup MissingRightTexts \cup MissingLeftTexts
        \cup UnterminatedTexts \cup NoIdentifierTexts \cup TrailingCommaTexts
        \cup EmptyArgumentTexts

\* the texts of test_error_handling, test_free_variables and test_substitution,
\* and texts at the edges of the grammar
TestTexts == {<<>>, <<"p", " ", "&">>, <<"&", " ", "q">>, <<"p", " ", "-", ">", " ">>, <<"(", "p">>, <<"p", ")">>, <<"(", "(", "p", ")">>, <<"f", "o", "r", "a", "l", "l", " ", "P", "(", "x", ")">>,
              <<"e", "x", "i", "s", "t", "s", " ", ".", " ", "P", "(", "x", ")">>, <<"P", "(", "x", ",", ")">>, <<"P", "(", ",", "y", ")">>, <<"P", "(", "x", ",", ",", "y", ")">>, <<"f", "o", "r", "a", "l", "l", " ", "x", ".">>, <<" ", "p", " ">>,
              <<"#">>, <<"P", "(">>, <<"P", "(", "x">>, <<"x", " ", "y">>, <<"(", "f", "o", "r", "a", "l", "l", " ", "x", ".", " ", "P", "(", "x", ")", ")", " ", "-", ">", " ", "Q", "(", "x", ")">>,
              <<"(", "f", "o", "r", "a", "l", "l", " ", "x", ".", " ", "P", "(", "x", ")", ")", " ", "&", " ", "Q", "(", "x", ")">>, <<EX, "x", ".", " ", ALL, "y", ".", " ", "R", "(", "x", ",", " ", "y", ",", " ", "z", ")">>, <<"P", "(", ")">>, <<"P", "(", "f", "(", ")", ")">>,
              <<"f", "o", "r", "a", "l", "l", " ", "X", ".", " ", "p">>, <<"f", "o", "r", "a", "l", "l", " ", "_", " ", "p">>, <<"~", "~", "p">>, <<"~", "(", "p", " ", "|", " ", "q", ")">>, <<"p", " ", "&", " ", "~", "p", " ", "-", ">", " ", BOT>>}

InputTexts == Texts3 \cup ChainTexts \cup MalformedTexts \cup TestTexts

InitParse ==
    /\ pc = "start"
    /\ input \in InputTexts
    /\ text = <<>>
    /\ pos = 0
    /\ constants = {}
    /\ formula = None
    /\ var = <<>>
    /\ term = None
    /\ result = None
    /\ error = "none"

\* the fields of the parser, and the caller's result, after a parse that gave r
Parsed(r) ==
    /\ pos' = r.st.pos
    /\ constants' = r.st.constants
    /\ result' = r.val
    /\ error' = r.err

\* formula = parse(input)
Parse ==
    /\ pc = "start"
    /\ pc' = "parse"
    /\ text' = strip(input)
    /\ Parsed(parse(input))
    /\ formula' = result'
    /\ UNCHANGED <<input, var, term>>

\* result = str(formula)
Str ==
    /\ pc = "parse"
    /\ error = "none"
    /\ pc' = "str"
    /\ result' = str(formula)
    /\ UNCHANGED <<input, text, pos, constants, formula, var, term, error>>

\* result = parse(result), the formula kept for the comparison
Reparse ==
    /\ pc = "str"
    /\ pc' = "reparse"
    /\ text' = strip(result)
    /\ Parsed(parse(result))
    /\ UNCHANGED <<input, formula, var, term>>

NextParse == Parse \/ Str \/ Reparse

SpecParse == InitParse /\ [][NextParse]_vars

(***************************************************************************)
(* Properties of the parser and the printer                                *)
(***************************************************************************)
\* C3: printing a parsed formula and parsing the printed text gives the
\* formula back, for every form of formula.
C3_RoundTrip ==
    pc = "reparse" => (error = "none" /\ result = formula)

\* the grouping the precedence and associativity rules give a op1 b op2 c:
\* conjunction before disjunction before implication, conjunction and
\* disjunction to the left, implication to the right
Precedence(kind) ==
    CASE kind = "Conjunction" -> 3 [] kind = "Disjunction" -> 2 [] kind = "Implication" -> 1
Signed(sign, atom) == IF sign.negated THEN Negation(atom.ast) ELSE atom.ast
ChainAst(ch) ==
    LET a == Signed(ch.sa, ch.a)
        b == Signed(ch.sb, ch.b)
        c == Signed(ch.sc, ch.c)
        left_first == \/ Precedence(ch.o1.kind) > Precedence(ch.o2.kind)
                      \/ /\ Precedence(ch.o1.kind) = Precedence(ch.o2.kind)
                         /\ ch.o1.kind # "Implication"
    IN  IF left_first
        THEN Binary(ch.o2.kind, Binary(ch.o1.kind, a, b), c)
        ELSE Binary(ch.o1.kind, a, Binary(ch.o2.kind, b, c))

\* C8: a chain of three atoms, each with or without a negation sign, joined
\* by two binary operators is grouped by precedence (negation, conjunction,
\* disjunction, implication) and associativity (implication to the right, the
\* others to the left).
C8_PrecedenceAssociativity ==
    (pc = "parse" /\ input \in ChainTexts) =>
        \A ch \in Chains :
            input = ChainText(ch) => (error = "none" /\ formula = ChainAst(ch))

\* p | q & r is Disjunction(p, Conjunction(q, r))
C8_Witness ==
    /\ pc = "parse"
    /\ input = <<"p", "|", "q", " ", "&", " ", "r">>
    /\ formula = Disjunction(AtomicFormula(<<"p">>, <<>>),
                     Conjunction(AtomicFormula(<<"q">>, <<>>), AtomicFormula(<<"r">>, <<>>)))

\* C9: parse ends in an error and returns no formula for the empty text, for
\* characters left over after a formula, for a binary operator without a left
\* or a right operand, for an unterminated parenthesis, for a quantifier
\* without a bound identifier, and for an argument list with a trailing comma
\* or an empty argument.
C9_MalformedRejected ==
    (pc = "parse" /\ input \in MalformedTexts) => (error # "none" /\ formula = None)

\* an empty argument between two commas
C9_Witness ==
    /\ pc = "parse"
    /\ input = <<"P", "(", "x", ",", ",", "y", ")">>
    /\ error = "ValueError"
    /\ formula = None

\* the texts that are damaged to get the malformed ones are formulas
TextsAreFormulas ==
    (pc = "parse" /\ input \in Texts3 \cup ChainTexts) =>
        (error = "none" /\ pos = Len(text))

\* C10: every failing parse raises the one error kind, ValueError.
C10_SingleErrorKind ==
    pc \in {"parse", "reparse"} => error \in {"none", "ValueError"}

(***************************************************************************)
(* Equality and hashing (__eq__ and __hash__ of the term and formula       *)
(* classes).  hash() of Python gives an integer that is a function of the  *)
(* characters of a string and of the hashes of the elements of a tuple;    *)
(* here it is a polynomial over HashModulus.                               *)
(***************************************************************************)
HashModulus == 65536
ClassNames == <<"Variable", "Constant", "FunctionApplication", "AtomicFormula", "Bottom",
                "Negation", "Conjunction", "Disjunction", "Implication", "Universal",
                "Existential">>
Alphabet == <<"a", "b", "c", "d", "e", "f", "g", "h", "i", "j", "k", "l", "m", "n", "o",
              "p", "q", "r", "s", "t", "u", "v", "w", "x", "y", "z", "A", "B", "C", "D",
              "E", "F", "G", "H", "I", "J", "K", "L", "M", "N", "O", "P", "Q", "R", "S",
              "T", "U", "V", "W", "X", "Y", "Z", "0", "1", "2", "3", "4", "5", "6", "7",
              "8", "9", "_", "'", BOT>>

\* the code of a character
ord(c) == CHOOSE i \in 1..Len(Alphabet) : Alphabet[i] = c

RECURSIVE hash_tuple(_, _, _)
\* hash(tuple) from the hashes of its elements i..Len(hashes)
hash_tuple(hashes, i, acc) ==
    IF i > Len(hashes) THEN acc
    ELSE hash_tuple(hashes, i + 1, (acc * 31 + hashes[i]) % HashModulus)

\* hash(str) of a name
hash_str(name) == hash_tuple([i \in 1..Len(name) |-> ord(name[i])], 1, 7)

\* hash(str) of a class name, the first element of the tuples that are hashed
hash_class(kind) == 1000 + (CHOOSE i \in 1..Len(ClassNames) : ClassNames[i] = kind)

RECURSIVE __eq__(_, _)
\* list.__eq__ of two argument lists, which sees a and b as unordered
list_eq_unordered(a, b) ==
    /\ Len(a) = Len(b)
    /\ \A i \in 1..Len(a) : \E j \in 1..Len(b) : __eq__(a[i], b[j])

\* list.__eq__ of two argument lists: the same length and equal elements in order
list_eq(a, b) ==
    /\ Len(a) = Len(b)
    /\ \A i \in 1..Len(a) : __eq__(a[i], b[i])

\* self == other; isinstance(other, C) is the test of the class of other
__eq__(self, other) ==
    CASE self.kind = "Variable" -> other.kind = "Variable" /\ self.name = other.name
      [] self.kind = "Constant" -> other.kind = "Constant" /\ self.name = other.name
      [] self.kind = "FunctionApplication" ->
            /\ other.kind = "FunctionApplication"
            /\ self.function = other.function
            /\ list_eq(self.args, other.args)
      [] self.kind = "AtomicFormula" ->
            /\ other.kind = "AtomicFormula"
            /\ self.predicate = other.predicate
            /\ list_eq(self.args, other.args)
      [] self.kind = "Bottom" -> other.kind = "Bottom"
      [] self.kind = "Negation" ->
            other.kind = "Negation" /\ __eq__(self.formula, other.formula)
      [] self.kind \in {"Conjunction", "Disjunction"} ->
            /\ other.kind = self.kind
            /\ __eq__(self.left, other.left)
            /\ __eq__(self.right, other.right)
      [] self.kind = "Implication" ->
            /\ other.kind = "Implication"
            /\ __eq__(self.antecedent, other.antecedent)
            /\ __eq__(self.consequent, other.consequent)
      [] self.kind \in {"Universal", "Existential"} ->
            /\ other.kind = self.kind
            /\ self.variable = other.variable
            /\ __eq__(self.formula, other.formula)

RECURSIVE __hash__(_)
\* hash(tuple(self.args))
hash_args(args) == hash_tuple([i \in 1..Len(args) |-> __hash__(args[i])], 1, 7)

\* hash(self)
__hash__(self) ==
    CASE self.kind \in {"Variable", "Constant"} ->
            hash_tuple(<<hash_class(self.kind), hash_str(self.name)>>, 1, 7)
      [] self.kind = "FunctionApplication" ->
            hash_tuple(<<hash_class(self.kind), hash_str(self.function),
                         hash_args(self.args)>>, 1, 7)
      [] self.kind = "AtomicFormula" ->
            hash_tuple(<<hash_class(self.kind), hash_str(self.predicate),
                         hash_args(self.args)>>, 1, 7)
      [] self.kind = "Bottom" -> hash_class("Bottom")
      [] self.kind = "Negation" ->
            hash_tuple(<<hash_class(self.kind), __hash__(self.formula)>>, 1, 7)
      [] self.kind \in {"Conjunction", "Disjunction"} ->
            hash_tuple(<<hash_class(self.kind), __hash__(self.left),
                         __hash__(self.right)>>, 1, 7)
      [] self.kind = "Implication" ->
            hash_tuple(<<hash_class(self.kind), __hash__(self.antecedent),
                         __hash__(self.consequent)>>, 1, 7)
      [] self.kind \in {"Universal", "Existential"} ->
            hash_tuple(<<hash_class(self.kind), hash_str(self.variable),
                         __hash__(self.formula)>>, 1, 7)

(***************************************************************************)
(* Callers of __eq__ and __hash__: a caller holds two values (formula and  *)
(* term, each a term or a formula), its own or the results of two parses   *)
(* of one text, compares them and takes their hashes.                      *)
(***************************************************************************)
EqTerms == Terms \cup {Constant(n) : n \in VarNames}
               \cup {FunctionApplication(<<"f">>, <<u, v>>) : u, v \in Variables}
EqAtoms == {AtomicFormula(<<"p">>, <<>>), AtomicFormula(<<"q">>, <<>>), Bottom,
            P_(Variable(x_)), P_(c_), R_(Variable(x_), Variable(y_)),
            R_(Variable(y_), Variable(x_))}
EqFormulas == EqAtoms \cup {Negation(g) : g \in EqAtoms}
                  \cup {Quantifier(k, n, g) : k \in QuantifierKinds, n \in VarNames, g \in EqAtoms}
                  \cup {Binary(k, g, h) : k \in BinaryKinds,
                                           g, h \in {AtomicFormula(<<"p">>, <<>>),
                                                     AtomicFormula(<<"q">>, <<>>), Bottom}}
EqValues == EqTerms \cup EqFormulas
EqTexts == {<<"p", " ", "&", " ", "q">>, <<"q", " ", "&", " ", "p">>, <<"f", "o", "r", "a", "l", "l", " ", "x", ".", " ", "P", "(", "x", ")">>, <<"e", "x", "i", "s", "t", "s", " ", "x", ".", " ", "P", "(", "x", ")">>, <<"R", "(", "x", ",", " ", "y", ")", " ", "-", ">", " ", "R", "(", "y", ",", "x", ")">>,
            <<"P", "(", "f", "(", "x", ")", ",", " ", "C", ")">>, <<"p", " ", "&">>}

\* the caller has a text to parse twice, or two values of its own
InitEq ==
    /\ pc = "start"
    /\ \/ input \in EqTexts /\ formula = None /\ term = None
       \/ input = <<>> /\ formula \in EqValues /\ term \in EqValues
    /\ text = <<>>
    /\ pos = 0
    /\ constants = {}
    /\ var = <<>>
    /\ result = None
    /\ error = "none"

\* formula = parse(input); term = parse(input)
ParseTwice ==
    /\ pc = "start"
    /\ formula = None
    /\ pc' = "parsed"
    /\ text' = strip(input)
    /\ formula' = parse(input).val
    /\ term' = parse(input).val
    /\ formula' # None
    /\ UNCHANGED <<input, pos, constants, var, result, error>>

\* result = (formula == term)
Eq ==
    /\ pc \in {"start", "parsed"}
    /\ formula # None
    /\ pc' = "eq"
    /\ result' = __eq__(formula, term)
    /\ UNCHANGED <<input, text, pos, constants, formula, var, term, error>>

\* result = (hash(formula), hash(term))
Hash ==
    /\ pc \in {"start", "parsed"}
    /\ formula # None
    /\ pc' = "hash"
    /\ result' = <<__hash__(formula), __hash__(term)>>
    /\ UNCHANGED <<input, text, pos, constants, formula, var, term, error>>

NextEq == ParseTwice \/ Eq \/ Hash

SpecEq == InitEq /\ [][NextEq]_vars
(***************************************************************************)
(* Properties of equality and hashing                                      *)
(***************************************************************************)
\* C11: two values compare equal exactly when they have the same class and
\* recursively equal fields (arguments in order), equal values have equal
\* hashes, and two parses of one text give equal formulas with equal hashes.
C11_StructuralEquality ==
    /\ pc = "eq" => result = (formula = term)
    /\ pc = "eq" /\ text # <<>> => result = TRUE
    /\ pc = "hash" /\ __eq__(formula, term) => result[1] = result[2]
    /\ pc = "hash" /\ text # <<>> => result[1] = result[2]

\* p & q compared with q & p
C11_Witness ==
    /\ pc = "eq"
    /\ formula = Conjunction(AtomicFormula(<<"p">>, <<>>), AtomicFormula(<<"q">>, <<>>))
    /\ term = Conjunction(AtomicFormula(<<"q">>, <<>>), AtomicFormula(<<"p">>, <<>>))
    /\ result = FALSE
(***************************************************************************)
(* Callers that parse a text and the same text with one operator spelled   *)
(* the other way.  The spellings of an operator are those the parser tests *)
(* for; a word ('forall', 'exists', '_') is an operator where it does not  *)
(* continue an identifier.                                                 *)
(***************************************************************************)
Spellings == {{<<"&">>, <<AND>>}, {<<"|">>, <<OR>>}, {<<"-", ">">>, <<IMP>>},
              {<<"~">>, <<NOT>>, <<"!">>}, {FORALL, <<ALL>>}, {EXISTS, <<EX>>},
              {<<"_">>, <<BOT>>}}

\* the character before position i continues an identifier
InIdentifier(tx, i) == i > 1 /\ (isalnum(tx[i - 1]) \/ tx[i - 1] \in {"_", "'"})

\* the spelling s of an operator stands at position i of tx
SpelledAt(tx, i, s) ==
    /\ i + Len(s) - 1 <= Len(tx)
    /\ SubSeq(tx, i, i + Len(s) - 1) = s
    /\ s \in {FORALL, EXISTS, <<"_">>} => ~InIdentifier(tx, i)

\* the texts tx becomes when the operator at position i is spelled another way
Respellings(tx, i) ==
    {SubSeq(tx, 1, i - 1) \o s2 \o SubSeq(tx, i + Len(s1), Len(tx)) :
        <<s1, s2>> \in {<<a, b>> \in UNION {G \X G : G \in Spellings} :
                           a # b /\ SpelledAt(tx, i, a)}}

SpellingTexts == Texts2 \cup {<<ALL, "x", EX, "y", ".", "P", "(", "x", ",", " ", "y", ")">>, <<"f", "o", "r", "a", "l", "l", " ", "x", " ", "e", "x", "i", "s", "t", "s", " ", "y", ".", " ", "P", "(", "x", ",", " ", "y", ")">>, <<ALL, "x", " ", EX, "y", " ", "P", "(", "x", ",", " ", "y", ")">>,
                              <<ALL, "x", BOT>>, <<"p", BOT>>, <<"p", " ", "-", ">", " ", "q", " ", AND, " ", "!", "r">>, <<"p", " ", "&">>, <<"(", "p", " ", "|", " ", "q">>}

InitSpelling ==
    /\ pc = "start"
    /\ input \in SpellingTexts
    /\ text = <<>>
    /\ pos = 0
    /\ constants = {}
    /\ formula = None
    /\ var = <<>>
    /\ term = None
    /\ result = None
    /\ error = "none"

\* result = parse(t), for a respelling t of input; formula is kept for the comparison
Respell ==
    /\ pc = "parse"
    /\ \E i \in 1..Len(input) : \E t \in Respellings(input, i) :
          /\ text' = strip(t)
          /\ Parsed(parse(t))
    /\ pc' = "respelled"
    /\ UNCHANGED <<input, formula, var, term>>

NextSpelling == Parse \/ Respell

SpecSpelling == InitSpelling /\ [][NextSpelling]_vars

\* C12: a text with one operator spelled the other way parses to an equal
\* formula, or fails if the text fails (None stands for a failed parse).
C12_Interchangeable == pc = "respelled" => result = formula
(***************************************************************************)
(* Callers that parse a quantified text: a quantifier in one of its        *)
(* spellings, a bound name, a separator and a body.                        *)
(***************************************************************************)
QuantifierWords == {[text |-> <<"f", "o", "r", "a", "l", "l", " ">>, kind |-> "Universal"],
                    [text |-> <<"f", "o", "r", "a", "l", "l">>, kind |-> "Universal"],
                    [text |-> <<ALL>>, kind |-> "Universal"],
                    [text |-> <<"e", "x", "i", "s", "t", "s", " ">>, kind |-> "Existential"],
                    [text |-> <<EX>>, kind |-> "Existential"]}
BoundIdentifiers == {<<"x">>, <<"y", "1">>, <<"X">>, <<"P">>, <<"X", "y">>}
Separators == {<<".", " ">>, <<" ">>, <<".">>, <<" ", ".", " ">>, <<>>}
QuantifierBodies ==
    ChainAtoms \cup
    {[text |-> <<"(", "p", ")">>, ast |-> AtomicFormula(<<"p">>, <<>>)],
     [text |-> <<"(", "P", "(", "x", ")", ")">>, ast |-> AtomicFormula(<<"P">>, <<Variable(<<"x">>)>>)],
     [text |-> <<"~", "q">>, ast |-> Negation(AtomicFormula(<<"q">>, <<>>))],
     [text |-> <<BOT>>, ast |-> Bottom]}
\* without a separator the body has to begin with a character that ends the name
QuantifierCases ==
    {c \in [word : QuantifierWords, variable : BoundIdentifiers, separator : Separators,
            body : QuantifierBodies] :
        c.separator = <<>> => c.body.text[1] \in {"(", "~", BOT}}
QuantifierText(c) == c.word.text \o c.variable \o c.separator \o c.body.text
QuantifiedTexts == {QuantifierText(c) : c \in QuantifierCases}

InitQuantifier ==
    /\ pc = "start"
    /\ input \in QuantifiedTexts
    /\ text = <<>>
    /\ pos = 0
    /\ constants = {}
    /\ formula = None
    /\ var = <<>>
    /\ term = None
    /\ result = None
    /\ error = "none"

SpecQuantifier == InitQuantifier /\ [][NextParse]_vars

\* the bound name is in upper case and the next character that is not a space is '('
PredicateFollows(c) ==
    /\ isupper(c.variable[1])
    /\ c.separator \in {<<>>, <<" ">>}
    /\ c.body.text[1] = "("

IdentifierHeads == {"p", "P", "z", "Q"}
IdentifierTails == {"q", "X", "1", "_", "'"}
MaxTail == 2
TailsUpTo(n) == UNION {[1..k -> IdentifierTails] : k \in 0..n}
Identifiers ==
    {<<h>> \o t : h \in IdentifierHeads, t \in TailsUpTo(MaxTail)}
        \cup {<<"f", "o", "r", "a", "l", "l", "s">>, <<"e", "x", "i", "s", "t", "s", "q">>, <<"f", "o", "r", "a", "l", "l", "x">>, <<"e", "x", "i", "s", "t", "e", "n", "t", "i", "a", "l">>,
              <<"F", "o", "r", "a", "l", "l">>, <<"x", "f", "o", "r", "a", "l", "l">>, <<"p", "r", "o", "p", "1">>}
EmptyArguments == {<<"(", ")">>, <<"(", " ", ")">>, <<" ", "(", ")">>}
EmptyApplications == {<<"f", "(", ")">>, <<"f", "(", " ", ")">>, <<"g", "(", "f", "(", ")", ")">>, <<"C", "(", ")">>}
EmptyApplicationTexts ==
    {<<"P", "(">> \o a \o <<")">> : a \in EmptyApplications}
        \cup {<<"R", "(", "x", ",", " ">> \o a \o <<")">> : a \in EmptyApplications}
AtomCallTexts ==
    Identifiers \cup {s \o e : s \in Identifiers, e \in EmptyArguments}
                \cup EmptyApplicationTexts

InitAtom ==
    /\ pc = "start"
    /\ input \in AtomCallTexts
    /\ text = <<>>
    /\ pos = 0
    /\ constants = {}
    /\ formula = None
    /\ var = <<>>
    /\ term = None
    /\ result = None
    /\ error = "none"

SpecAtom == InitAtom /\ [][NextParse]_vars

\* C14: 'P()' parses, for every identifier P, to the atom P without arguments,
\* which is the formula 'P' parses to and prints as 'P'.
C14_ZeroArguments ==
    \A s \in Identifiers : \A e \in EmptyArguments :
        input = s \o e =>
            /\ pc = "parse" =>
                  /\ error = "none"
                  /\ formula = AtomicFormula(s, <<>>)
                  /\ formula = parse(s).val
            /\ pc = "str" => result = s
\* C17: every identifier, those that begin with 'forall' or 'exists'
\* included, parses to the atom of that name without arguments.
C17_IdentifierIsAtom ==
    pc = "parse" /\ input \in Identifiers =>
        error = "none" /\ formula = AtomicFormula(input, <<>>)

\* C18: a text with an application without arguments in term position, such
\* as 'P(f())', is rejected.
C18_NonEmptyTermArguments ==
    pc = "parse" /\ input \in EmptyApplicationTexts => error # "none"
(***************************************************************************)
(* Callers of _fresh_variable: a quantifier (formula) and a set of used    *)
(* names (term), which holds any of the names the loop can test.           *)
(***************************************************************************)
MaxCounter == 10
FreshBases == {<<"y">>, <<"x", "0">>}
UsedPool(base) == {base} \cup {base \o IntToStr(n) : n \in 0..MaxCounter}

InitFresh ==
    /\ pc = "start"
    /\ input = <<>>
    /\ text = <<>>
    /\ pos = 0
    /\ constants = {}
    /\ \E k \in QuantifierKinds, b \in FreshBases :
          /\ formula = Quantifier(k, b, P_(Variable(b)))
          /\ term \in SUBSET UsedPool(b)
    /\ var = <<>>
    /\ result = None
    /\ error = "none"

\* result = formula._fresh_variable(term)
FreshVariable ==
    /\ pc = "start"
    /\ pc' = "fresh_variable"
    /\ result' = fresh_variable(formula, term)
    /\ UNCHANGED <<input, text, pos, constants, formula, var, term, error>>

NextFresh == FreshVariable

SpecFresh == InitFresh /\ [][NextFresh]_vars

\* the counters 0, 1, 2, ... in decimal
Decimal == <<<<"0">>, <<"1">>, <<"2">>, <<"3">>, <<"4">>, <<"5">>, <<"6">>, <<"7">>, <<"8">>, <<"9">>, <<"1", "0">>, <<"1", "1">>, <<"1", "2">>, <<"1", "3">>>>

\* C15: the generator returns the base followed by the smallest counter
\* n >= 0 whose name is not among the used names; the name is never used.
C15_FirstFreshName ==
    pc = "fresh_variable" =>
        /\ result \notin term
        /\ \E n \in 0..(MaxCounter + 1) :
              /\ result = formula.variable \o Decimal[n + 1]
              /\ \A m \in 0..(n - 1) : (formula.variable \o Decimal[m + 1]) \in term

\* y0 ... y9 are used and y10 is returned
C15_Witness ==
    /\ pc = "fresh_variable"
    /\ formula.variable = <<"y">>
    /\ result = <<"y", "1", "0">>
    /\ <<"y", "3">> \in term
(***************************************************************************)
(* Callers that parse a quantifier among binary connectives: a quantifier  *)
(* in front of two or three operands, in parentheses as a left operand, or *)
(* as the right operand of a connective.                                   *)
(***************************************************************************)
GreedyWords == {[text |-> <<"f", "o", "r", "a", "l", "l", " ", "x", ".", " ">>, kind |-> "Universal", variable |-> <<"x">>],
                [text |-> <<ALL, "x", ".">>, kind |-> "Universal", variable |-> <<"x">>],
                [text |-> <<EX, "y", " ">>, kind |-> "Existential", variable |-> <<"y">>]}
GreedyPairs == [word : GreedyWords, a : ChainAtoms, o : ChainOperators, b : ChainAtoms]
PairText(c) == c.word.text \o c.a.text \o c.o.text \o c.b.text
ParenText(c) == <<"(">> \o c.word.text \o c.a.text \o <<")">> \o c.o.text \o c.b.text
UnsignedChains ==
    {ch \in Chains : /\ ~ch.sa.negated /\ ~ch.sb.negated /\ ~ch.sc.negated
                     /\ ch.a.text \in {<<"q">>, <<"P", "(", "x", ")">>}
                     /\ ch.b.text \in {<<"q">>, <<"r">>}
                     /\ ch.c.text \in {<<"p">>, <<"r">>}}
GreedyLeads == {a \in ChainAtoms : a.text \in {<<"p">>, <<"P", "(", "x", ")">>}}
GreedyChains == [lead : GreedyLeads, o : ChainOperators, word : GreedyWords,
                 body : UnsignedChains]
RightText(c) == c.lead.text \o c.o.text \o c.word.text \o ChainText(c.body)
GreedyTexts == {PairText(c) : c \in GreedyPairs} \cup {ParenText(c) : c \in GreedyPairs}
                   \cup {RightText(c) : c \in GreedyChains}

InitGreedy ==
    /\ pc = "start"
    /\ input \in GreedyTexts
    /\ text = <<>>
    /\ pos = 0
    /\ constants = {}
    /\ formula = None
    /\ var = <<>>
    /\ term = None
    /\ result = None
    /\ error = "none"

SpecGreedy == InitGreedy /\ [][NextParse]_vars

\* C16: the body of a quantifier is the whole formula that follows it, up to
\* the parenthesis that encloses the quantifier: 'Q x. A op B' is the
\* quantifier over (A op B), a quantifier that is a right operand takes every
\* connective after it into its body, and '(Q x. A) op B' is the connective.
C16_GreedyBody ==
    pc = "parse" =>
        /\ \A c \in GreedyPairs :
              /\ input = PairText(c) =>
                    /\ error = "none"
                    /\ formula = Quantifier(c.word.kind, c.word.variable,
                                            Binary(c.o.kind, c.a.ast, c.b.ast))
              /\ input = ParenText(c) =>
                    /\ error = "none"
                    /\ formula = Binary(c.o.kind,
                                        Quantifier(c.word.kind, c.word.variable, c.a.ast),
                                        c.b.ast)
        /\ \A c \in GreedyChains :
              input = RightText(c) =>
                  /\ error = "none"
                  /\ formula = Binary(c.o.kind, c.lead.ast,
                                      Quantifier(c.word.kind, c.word.variable,
                                                 ChainAst(c.body)))

\* p & forall x. q|r -> p is Conjunction(p, Universal(x, (q | r) -> p))
C16_Witness ==
    /\ pc = "parse"
    /\ input = <<"p", " ", "&", " ", "f", "o", "r", "a", "l", "l", " ", "x", ".", " ", "q", "|", "r", " ", "-", ">", " ", "p">>
    /\ formula = Conjunction(AtomicFormula(<<"p">>, <<>>),
                     Universal(<<"x">>, Implication(
                         Disjunction(AtomicFormula(<<"q">>, <<>>), AtomicFormula(<<"r">>, <<>>)),
                         AtomicFormula(<<"p">>, <<>>))))
(***************************************************************************)
(* A caller that keeps one FormulaParser and parses one text after the     *)
(* other with it: pos and constants are the fields the last parse left.    *)
(***************************************************************************)
ReuseTexts == {<<>>, <<"p">>, <<" ", "P", "(", "A", ")", " ">>, <<"P", "(", "A", ",", " ", "x", ")", " ", "&", " ", "Q", "(", "B", ")">>, <<"P", "(", "A">>, <<"p", " ", "&">>, <<"(", "p", " ", "|", " ", "q">>, <<"p", " ", "q">>,
               <<"f", "o", "r", "a", "l", "l", " ", "x", ".", " ", "R", "(", "x", ",", " ", "A", "b", ")">>, <<"f", "o", "r", "a", "l", "l">>, <<"P", "(", "f", "(", "C", ")", ",", " ", "y", ")", " ", "-", ">", " ", "~", "q">>, <<EX, "y", " ", "P", "(", "y", ")">>, <<"P", "(", "A", ")", ")">>,
               <<"~">>, <<"_">>, <<"P", "(", "x", ",", " ", "B", ",", " ">>, <<"Q", "(", "B", ")", " ", "|", " ", "#">>, <<"P", "(", "x", ")">>}

InitReuse ==
    /\ pc = "start"
    /\ input = <<>>
    /\ text = <<>>
    /\ pos = NewParser.pos
    /\ constants = NewParser.constants
    /\ formula = None
    /\ var = <<>>
    /\ term = None
    /\ result = None
    /\ error = "none"

\* formula = parser.parse(t), on the parser of the earlier calls
ParserParse ==
    /\ pc \in {"start", "parse"}
    /\ pc' = "parse"
    /\ \E t \in ReuseTexts :
          /\ input' = t
          /\ text' = strip(t)
          /\ Parsed(parser_parse(t, [pos |-> pos, constants |-> constants]))
    /\ formula' = result'
    /\ UNCHANGED <<var, term>>

NextReuse == ParserParse

SpecReuse == InitReuse /\ [][NextReuse]_vars

\* the caller's outcome is the outcome r: the formula, the kind of failure and
\* the position of the cursor
SameOutcome(r) ==
    /\ result = r.val
    /\ error = r.err
    /\ pos = r.st.pos

\* C19: after every call on a parser that has parsed other texts before, with
\* or without success, the formula returned, or the failure and the position
\* of the cursor where it fails, are those of a fresh parser on the same text.
C19_OutcomeOfTextOnly == pc = "parse" => SameOutcome(parse(input))

\* P(x) parsed by a parser that has seen the constants A and B in earlier texts
C19_Witness ==
    /\ pc = "parse"
    /\ input = <<"P", "(", "x", ")">>
    /\ constants = {<<"A">>, <<"B">>}
    /\ formula = AtomicFormula(<<"P">>, <<Variable(<<"x">>)>>)
(***************************************************************************)
(* The methods of the parser one by one: the text is the stripped text of  *)
(* a parse under way, the cursor is anywhere in it, and one method runs.   *)
(***************************************************************************)
CursorTexts == {<<"p">>, <<"P", "(", "x", ",", " ", "f", "(", "y", ")", ")", " ", "&", " ", "q">>, <<"(", "f", "o", "r", "a", "l", "l", " ", "x", ".", " ", "P", "(", "x", ")", ")", " ", "-", ">", " ", EX, "y", " ", "Q", "(", "y", ")">>, <<"f", "o", "r", "a", "l", "l">>, <<"p", " ", "-">>, <<"p", " ", "-", ">">>,
                <<"p", " ", "-", ">", " ">>, <<ALL>>, <<"P", "(", "x">>, <<"P", "(", "x", ",">>, <<"e", "x", "i", "s", "t", "s", " ">>, <<"f", "o", "r", "a">>, <<"p", " ", "_">>, <<"(", " ", "p", " ", "|", " ", "~", " ", "q", " ", ")">>, <<"~">>, <<"(">>,
                <<"p", " ", " ", "&", " ", " ", "q">>, <<"f", "o", "r", "a", "l", "l", "x">>, <<" ", "p", " ">>, <<"p", AND, "q", OR, "r", IMP, BOT>>, <<"f", "(", "A", ",", " ", "g", "(", "B", ")", ")">>, <<"x", ".", "y">>, <<>>}
ExpectedChars == {NoChar, "(", ")", ",", "."}

InitCursor ==
    /\ pc = "start"
    /\ input \in CursorTexts
    /\ text = strip(input)
    /\ pos \in 0..Len(text)
    /\ constants = {}
    /\ formula = None
    /\ var = <<>>
    /\ term = None
    /\ result = None
    /\ error = "none"

\* the method `name` ran from the cursor and gave r
Called(name, r) ==
    /\ pc = "start"
    /\ pc' = name
    /\ Parsed(r)
    /\ UNCHANGED <<input, text, formula, var, term>>

Cursor == [pos |-> pos, constants |-> constants]

SkipWhitespace == Called("_skip_whitespace", Return(_skip_whitespace(text, Cursor), None))
Consume == \E expected \in ExpectedChars : Called("_consume", _consume(text, Cursor, expected))
ParseIdentifier == Called("_parse_identifier", _parse_identifier(text, Cursor))
ParseTerm == Called("_parse_term", _parse_term(text, Cursor))
ParseAtomic == Called("_parse_atomic", _parse_atomic(text, Cursor))
ParseNegation == Called("_parse_negation", _parse_negation(text, Cursor))
ParsePrimary == Called("_parse_primary", _parse_primary(text, Cursor))
\* _parse_universal and _parse_existential, behind the quantifier
ParseQuantifier ==
    \E kind \in QuantifierKinds :
        Called(IF kind = "Universal" THEN "_parse_universal" ELSE "_parse_existential",
               parse_quantifier(kind, text, Cursor))
ParseConjunction == Called("_parse_conjunction", _parse_conjunction(text, Cursor))
ParseDisjunction == Called("_parse_disjunction", _parse_disjunction(text, Cursor))
\* what parse makes of the outcome f of its call of _parse_formula, and what
\* the other callers of _parse_formula and _parse_implication get
finished(name, tx, f) == IF name = "parse" THEN whole_text(tx, f) ELSE f

\* _parse_implication, _parse_formula, which is its call, and parse from its
\* second statement on, where the cursor is at 0 and _parse_formula runs
ParseFormula ==
    \E name \in {"_parse_implication", "_parse_formula", "parse"} :
        /\ name = "parse" => pos = 0
        /\ Called(name, finished(name, text, _parse_formula(text, Cursor)))

NextCursor ==
    \/ SkipWhitespace
    \/ Consume
    \/ ParseIdentifier
    \/ ParseTerm
    \/ ParseAtomic
    \/ ParseNegation
    \/ ParsePrimary
    \/ ParseQuantifier
    \/ ParseConjunction
    \/ ParseDisjunction
    \/ ParseFormula

SpecCursor == InitCursor /\ [][NextCursor]_vars

\* C20: the cursor stays between 0 and the length of the stripped text, no
\* method of the parser, run from any place of the text, leaves the cursor
\* before the place it started from, and parse returns a formula only with
\* the cursor at the end of the text.
C20_CursorInvariant ==
    /\ [](0 <= pos /\ pos <= Len(text))
    /\ [][pos' >= pos]_vars
    /\ [](pc = "parse" /\ error = "none" => pos = Len(text))

\* _parse_term run at the 'f' of P(x, f(y)) & q reads f(y) and stops behind it
C20_Witness ==
    /\ pc = "_parse_term"
    /\ input = <<"P", "(", "x", ",", " ", "f", "(", "y", ")", ")", " ", "&", " ", "q">>
    /\ result = FunctionApplication(<<"f">>, <<Variable(<<"y">>)>>)
    /\ pos = 9
(***************************************************************************)
(* The free-variable law of substitution, on the callers of Spec           *)
(***************************************************************************)
\* C21: the free variables of f.substitute(var, t) are those of f without var
\* and with the variables of t when var is free in f, and those of f when it
\* is not; a closed formula stays closed.
C21_FreeVariableLaw ==
    pc = "substitute" =>
        get_free_variables(result) =
            IF var \in get_free_variables(formula)
            THEN (get_free_variables(formula) \ {var}) \cup get_variables(term)
            ELSE get_free_variables(formula)

=============================================================================
